---- MODULE Spec2Model ----
(***************************************************************************)
(* Model of the arith-repl-v2 lexer (src/src/lexer.rs).                    *)
(*                                                                         *)
(* A Lexer borrows a byte buffer `cstream` and keeps a cursor `it` with    *)
(* cached `line` and `column`.  `execute` loops: at each cursor it tries   *)
(* the recognizers number, whitespace, doubles, singles, boolean in that   *)
(* order; the first that matches moves the cursor and pushes one token.    *)
(* The loop ends with Ok(tok_stream) at the end of the buffer or with      *)
(* Err(UnrecognizedToken) when no recognizer matches.                      *)
(*                                                                         *)
(* Bytes are the integers 0..255.  `cstream` is a TLA+ sequence, so the    *)
(* byte at Rust offset i is cstream[i + 1].                                *)
(***************************************************************************)
EXTENDS Integers, Sequences, FiniteSets, TLC

VARIABLES
    cstream,     \* Lexer.cstream: the borrowed input bytes
    it,          \* Lexer.it: cursor, a byte offset (0-based)
    line,        \* Lexer.line: cached line of the cursor
    column,      \* Lexer.column: cached column of the cursor
    tok_stream,  \* execute's local Vec<Token>
    pc,          \* where the caller is: "idle" (constructed, no call yet),
                 \* "run" (inside execute's loop), "ok" / "err" (execute
                 \* returned), "panic" (the thread panicked inside execute)
    result,      \* the value the last execute call returned
    calls        \* number of execute calls made on this Lexer

vars == <<cstream, it, line, column, tok_stream, pc, result, calls>>

(***************************************************************************)
(* Bounds of the model.                                                    *)
(***************************************************************************)
\* Longest input drawn from every combination of the Alphabet bytes.
MaxLen == 4
\* Longest Alphabet prefix put in front of each sample input.
MaxPad == 1
\* Number of execute calls made on one Lexer.
MaxCalls == 2

(***************************************************************************)
(* Program constants.                                                      *)
(***************************************************************************)
\* b'\n'
NL == 10
\* b'0'
ZERO == 48
\* bool_true.len() and bool_false.len()
TrueLen == 4
FalseLen == 5
\* width of the i32 accumulator of try_extract_number, as two 16-bit halves
Half == 65536
MaxI32 == 2147483647

bool_true  == <<84, 114, 117, 101>>          \* b"True"
bool_false == <<70, 97, 108, 115, 101>>      \* b"False"

None == <<"None">>

(***************************************************************************)
(* Position of an offset: get_line, get_column, get_position.              *)
(***************************************************************************)
SetMax(S) == CHOOSE m \in S : \A k \in S : k <= m

\* 1 + number of b'\n' in cstream[0..it]
GetLine(s, i) == Cardinality({k \in 1..i : s[k] = NL}) + 1

\* Mutant of GetColumn: the first b'\n' is taken instead of the last.
GetColumnFirstNewline(s, i) ==
    LET nls == {n \in 0..(i - 1) : s[n + 1] = NL}
    IN  IF nls = {} THEN i + 1
        ELSE i - (CHOOSE m \in nls : \A k \in nls : m <= k)

\* it - (index of the last b'\n' in cstream[0..it]), or it + 1 without one
GetColumn(s, i) ==
    LET nls == {n \in 0..(i - 1) : s[n + 1] = NL}
    IN  IF nls = {} THEN i + 1 ELSE i - SetMax(nls)

\* Mutant of GetPosition: the pair is built in the wrong order.
GetPositionSwapped(s, i) == <<GetColumn(s, i), GetLine(s, i)>>

GetPosition(s, i) == <<GetLine(s, i), GetColumn(s, i)>>

\* Mutant of MoveCurs: the column is computed before the cursor moves.
MoveCursColumnFirst(s, i, offset) ==
    [it     |-> i + offset,
     column |-> GetColumn(s, i),
     line   |-> GetLine(s, i + offset)]

\* Mutant of MoveCurs: the line is not recomputed.
MoveCursKeepLine(s, i, offset) ==
    [it     |-> i + offset,
     column |-> GetColumn(s, i + offset),
     line   |-> GetLine(s, i)]

\* move_curs: the fields of the Lexer after self.move_curs(offset)
MoveCurs(s, i, offset) ==
    [it     |-> i + offset,
     column |-> GetColumn(s, i + offset),
     line   |-> GetLine(s, i + offset)]

(***************************************************************************)
(* The two regexes.  regex::bytes::Regex is Unicode-aware by default, so   *)
(* \d is the general category Nd and \s the property White_Space, and one  *)
(* \d or \s matches the well-formed UTF-8 encoding (one to four bytes) of  *)
(* one code point of the class.  A byte sequence that is not well-formed   *)
(* UTF-8 (a stray continuation byte, a truncated or overlong encoding, a   *)
(* surrogate) matches neither.  The source pins no version of the regex    *)
(* crate; the classes are those of the Unicode 16.0 tables.                *)
(***************************************************************************)
\* UTF-8 continuation byte at 1-based index k of s.
IsCont(s, k) == k <= Len(s) /\ s[k] \in 128..191

\* The code point whose well-formed UTF-8 encoding starts at offset i of s,
\* with the length of the encoding (len = 0: none starts there).
Utf8At(s, i) ==
    IF i >= Len(s) THEN [cp |-> 0, len |-> 0]
    ELSE LET b == s[i + 1] IN
         IF b < 128 THEN [cp |-> b, len |-> 1]
         ELSE IF b \in 194..223 /\ IsCont(s, i + 2)
              THEN [cp |-> (b - 192) * 64 + (s[i + 2] - 128), len |-> 2]
         ELSE IF b \in 224..239 /\ IsCont(s, i + 2) /\ IsCont(s, i + 3)
                 /\ (b = 224 => s[i + 2] >= 160)        \* not overlong
                 /\ (b = 237 => s[i + 2] <= 159)        \* not a surrogate
              THEN [cp |-> (b - 224) * 4096 + (s[i + 2] - 128) * 64
                            + (s[i + 3] - 128),
                    len |-> 3]
         ELSE IF b \in 240..244 /\ IsCont(s, i + 2) /\ IsCont(s, i + 3)
                 /\ IsCont(s, i + 4)
                 /\ (b = 240 => s[i + 2] >= 144)        \* not overlong
                 /\ (b = 244 => s[i + 2] <= 143)        \* at most U+10FFFF
              THEN [cp |-> (b - 240) * 262144 + (s[i + 2] - 128) * 4096
                            + (s[i + 3] - 128) * 64 + (s[i + 4] - 128),
                    len |-> 4]
         ELSE [cp |-> 0, len |-> 0]

\* The class \d: the code point ranges of general category Nd.
NdRanges ==
    {
      <<48, 57>>, <<1632, 1641>>, <<1776, 1785>>, <<1984, 1993>>,
      <<2406, 2415>>, <<2534, 2543>>, <<2662, 2671>>, <<2790, 2799>>,
      <<2918, 2927>>, <<3046, 3055>>, <<3174, 3183>>, <<3302, 3311>>,
      <<3430, 3439>>, <<3558, 3567>>, <<3664, 3673>>, <<3792, 3801>>,
      <<3872, 3881>>, <<4160, 4169>>, <<4240, 4249>>, <<6112, 6121>>,
      <<6160, 6169>>, <<6470, 6479>>, <<6608, 6617>>, <<6784, 6793>>,
      <<6800, 6809>>, <<6992, 7001>>, <<7088, 7097>>, <<7232, 7241>>,
      <<7248, 7257>>, <<42528, 42537>>, <<43216, 43225>>, <<43264, 43273>>,
      <<43472, 43481>>, <<43504, 43513>>, <<43600, 43609>>, <<44016, 44025>>,
      <<65296, 65305>>, <<66720, 66729>>, <<68912, 68921>>, <<68928, 68937>>,
      <<69734, 69743>>, <<69872, 69881>>, <<69942, 69951>>, <<70096, 70105>>,
      <<70384, 70393>>, <<70736, 70745>>, <<70864, 70873>>, <<71248, 71257>>,
      <<71360, 71369>>, <<71376, 71395>>, <<71472, 71481>>, <<71904, 71913>>,
      <<72016, 72025>>, <<72688, 72697>>, <<72784, 72793>>, <<73040, 73049>>,
      <<73120, 73129>>, <<73552, 73561>>, <<90416, 90425>>, <<92768, 92777>>,
      <<92864, 92873>>, <<93008, 93017>>, <<93552, 93561>>, <<118000, 118009>>,
      <<120782, 120831>>, <<123200, 123209>>, <<123632, 123641>>, <<124144, 124153>>,
      <<124401, 124410>>, <<125264, 125273>>, <<130032, 130041>> }

\* The class \s: the code point ranges of the property White_Space.
WhiteSpaceRanges ==
    { <<9, 13>>, <<32, 32>>, <<133, 133>>, <<160, 160>>,
      <<5760, 5760>>,                                       \* U+1680
      <<8192, 8202>>,                                       \* U+2000..U+200A
      <<8232, 8233>>,                                       \* U+2028 U+2029
      <<8239, 8239>>, <<8287, 8287>>,                       \* U+202F U+205F
      <<12288, 12288>> }                                    \* U+3000

\* cp lies in one of the ranges of R.
InRanges(cp, R) == \E r \in R : r[1] <= cp /\ cp <= r[2]

\* Number of bytes one \d matches at offset i (0: no match).
DigitCharLen(s, i) ==
    LET d == Utf8At(s, i)
    IN  IF d.len > 0 /\ InRanges(d.cp, NdRanges) THEN d.len ELSE 0

\* Number of bytes one \s matches at offset i (0: no match).
SpaceCharLen(s, i) ==
    LET d == Utf8At(s, i)
    IN  IF d.len > 0 /\ InRanges(d.cp, WhiteSpaceRanges) THEN d.len ELSE 0

\* Mutant of NumberMatchEnd: the regex is ^\d, one digit per match.
NumberMatchEndOneDigit(s, i) == DigitCharLen(s, i)

\* m.end() of ^\d+ on cstream[it..]: the greedy run (0: no match).
RECURSIVE NumberMatchEnd(_, _)
NumberMatchEnd(s, i) ==
    LET n == DigitCharLen(s, i)
    IN  IF n = 0 THEN 0 ELSE n + NumberMatchEnd(s, i + n)

\* m.end() of ^\s+ on cstream[it..]: the greedy run (0: no match).
RECURSIVE WhitespaceMatchEnd(_, _)
WhitespaceMatchEnd(s, i) ==
    LET n == SpaceCharLen(s, i)
    IN  IF n = 0 THEN 0 ELSE n + WhitespaceMatchEnd(s, i + n)

(***************************************************************************)
(* The value of a number: reduce(|a, b| a * 10 + b) over the matched       *)
(* bytes, each mapped to (b - b'0') as i32.  i32 arithmetic panics on      *)
(* overflow when the build has overflow checks (the dev profile) and       *)
(* wraps modulo 2^32 otherwise (the release profile).                      *)
(***************************************************************************)
\* a * 10 overflows i32, or a * 10 + b does.
StepOverflows(a, b) ==
    IF a > MaxI32 \div 10 \/ a < -(MaxI32 \div 10) THEN TRUE
    ELSE a * 10 > MaxI32 - b

\* a * 10 + b wrapped to i32, computed on the 16-bit halves of a.
WrapMul10Add(a, b) ==
    LET hi   == (a \div Half) % Half
        lo   == a % Half
        lo10 == lo * 10 + b
        nlo  == lo10 % Half
        nhi  == (hi * 10 + lo10 \div Half) % Half
    IN  IF nhi >= Half \div 2 THEN (nhi - Half) * Half + nlo
        ELSE nhi * Half + nlo

\* Mutant of NumberFold: the bytes are not mapped by (b - b'0').
RECURSIVE NumberFoldRaw(_, _)
NumberFoldRaw(s, n) ==
    IF n = 1 THEN s[1]
    ELSE WrapMul10Add(NumberFoldRaw(s, n - 1), s[n])

\* The fold over bytes s[1..n]; the first byte is the initial accumulator.
RECURSIVE NumberFold(_, _)
NumberFold(s, n) ==
    IF n = 1 THEN s[1] - ZERO
    ELSE WrapMul10Add(NumberFold(s, n - 1), s[n] - ZERO)

\* Some step of the fold over s[1..n] overflows i32.
RECURSIVE NumberOverflows(_, _)
NumberOverflows(s, n) ==
    IF n = 1 THEN FALSE
    ELSE IF NumberOverflows(s, n - 1) THEN TRUE
    ELSE StepOverflows(NumberFold(s, n - 1), s[n] - ZERO)

(***************************************************************************)
(* cstream.get(it..it + n): the n bytes at the cursor, None past the end.  *)
(***************************************************************************)
GetSlice(s, i, n) ==
    IF i + n <= Len(s) THEN SubSeq(s, i + 1, i + n) ELSE None

\* try_extract_doubles: the token value matched at the cursor, or None.
DoublesValue(s, i) ==
    LET val == GetSlice(s, i, 2)
    IN  IF val = <<61, 61>> THEN <<"DoubleEqual">>          \* b"=="
        ELSE IF val = <<33, 61>> THEN <<"ExclEqual">>       \* b"!="
        ELSE IF val = <<38, 38>> THEN <<"DoubleAnd">>       \* b"&&"
        ELSE IF val = <<124, 124>> THEN <<"DoublePipe">>    \* b"||"
        ELSE None

\* Mutant of SinglesValue: any other byte falls back to Character(b).
SinglesValueCharacter(s, i) ==
    IF i >= Len(s) THEN None
    ELSE LET b == s[i + 1]
         IN  IF b = 61 THEN <<"Equal">>
             ELSE IF b = 43 THEN <<"Cross">>
             ELSE IF b = 45 THEN <<"Dash">>
             ELSE IF b = 42 THEN <<"Star">>
             ELSE IF b = 47 THEN <<"Slash">>
             ELSE IF b = 40 THEN <<"OpenRoundBracket">>
             ELSE IF b = 41 THEN <<"CloseRoundBracket">>
             ELSE IF b = 123 THEN <<"OpenCurlyBracket">>
             ELSE IF b = 125 THEN <<"CloseCurlyBracket">>
             ELSE IF b = 33 THEN <<"CloseCurlyBracket">>
             ELSE <<"Character", b>>

\* try_extract_singles: the token value matched at the cursor, or None.
SinglesValue(s, i) ==
    IF i >= Len(s) THEN None
    ELSE LET b == s[i + 1]
         IN  IF b = 61 THEN <<"Equal">>                     \* b'='
             ELSE IF b = 43 THEN <<"Cross">>                \* b'+'
             ELSE IF b = 45 THEN <<"Dash">>                 \* b'-'
             ELSE IF b = 42 THEN <<"Star">>                 \* b'*'
             ELSE IF b = 47 THEN <<"Slash">>                \* b'/'
             ELSE IF b = 40 THEN <<"OpenRoundBracket">>     \* b'('
             ELSE IF b = 41 THEN <<"CloseRoundBracket">>    \* b')'
             ELSE IF b = 123 THEN <<"OpenCurlyBracket">>    \* b'{'
             ELSE IF b = 125 THEN <<"CloseCurlyBracket">>   \* b'}'
             ELSE IF b = 33 THEN <<"CloseCurlyBracket">>    \* b'!'
             ELSE None

\* Mutant of BooleanValue: the False arm is a copy of the True arm.
BooleanValueBothTrue(s, i) ==
    IF GetSlice(s, i, TrueLen) = bool_true THEN <<"Boolean", TRUE>>
    ELSE IF GetSlice(s, i, FalseLen) = bool_false THEN <<"Boolean", TRUE>>
    ELSE None

\* Mutant of BooleanValue: a keyword matches only at a word boundary.
BooleanValueWordBoundary(s, i) ==
    LET boundary(n) ==
            \/ i + n = Len(s)
            \/ /\ i + n < Len(s)
               /\ s[i + n + 1] \notin (48..57) \cup (65..90) \cup (97..122)
    IN  IF GetSlice(s, i, TrueLen) = bool_true /\ boundary(TrueLen)
        THEN <<"Boolean", TRUE>>
        ELSE IF GetSlice(s, i, FalseLen) = bool_false /\ boundary(FalseLen)
        THEN <<"Boolean", FALSE>>
        ELSE None

\* try_extract_boolean: the token value matched at the cursor, or None.
BooleanValue(s, i) ==
    IF GetSlice(s, i, TrueLen) = bool_true THEN <<"Boolean", TRUE>>
    ELSE IF GetSlice(s, i, FalseLen) = bool_false THEN <<"Boolean", FALSE>>
    ELSE None

Token(value, ln, col) == [value |-> value, line |-> ln, column |-> col]

(***************************************************************************)
(* Inputs.  Every byte string over Alphabet up to MaxLen bytes, and every  *)
(* sample with an Alphabet prefix (up to MaxPad bytes) and an optional     *)
(* one-byte Alphabet suffix.                                               *)
(***************************************************************************)
\* '1'  ' '  '\n'  '='  '!'  '@'  0xD9  0xA0
Alphabet == {49, 32, 10, 61, 33, 64, 217, 160}

RECURSIVE Strings(_)
Strings(n) ==
    IF n = 0 THEN {<<>>}
    ELSE LET P == Strings(n - 1)
         IN  P \cup {Append(p, b) : p \in P, b \in Alphabet}

Samples ==
    { <<40, 49, 32, 43, 32, 50, 41>>,                       \* "(1 + 2)"
      <<49, 10, 50, 50>>,                                   \* "1\n22"
      bool_true, bool_false,
      <<84, 114, 117>>,                                     \* "Tru"
      <<70, 97, 108, 115>>,                                 \* "Fals"
      <<84, 114, 117, 101, 115, 116>>,                      \* "Truest"
      <<124, 124>>, <<124>>,                                \* "||"  "|"
      <<38, 38>>, <<38>>, <<38, 38, 38>>,                   \* "&&" "&" "&&&"
      <<125>>, <<123, 125>>,                                \* "}"  "{}"
      <<43>>, <<45>>, <<42>>, <<47>>,                       \* + - * /
      <<40>>, <<41>>, <<123>>,                              \* ( ) {
      <<9>>, <<11>>, <<12>>, <<13>>,                        \* \t \v \f \r
      <<194, 160>>, <<194, 133>>, <<194>>,                  \* U+00A0 U+0085
      <<219, 181>>, <<223, 137>>,                           \* U+06F5 U+07C9
      <<224, 165, 166>>, <<239, 188, 145>>,                 \* U+0966 U+FF11
      <<240, 157, 159, 142>>,                               \* U+1D7CE
      <<226, 128, 128>>, <<227, 128, 128>>,                 \* U+2000 U+3000
      <<226, 128, 168>>, <<225, 154, 128>>,                 \* U+2028 U+1680
      <<226, 128, 139>>, <<239, 188, 154>>,                 \* U+200B U+FF1A
      <<224, 165>>, <<224, 128, 177>>,                      \* truncated, overlong
      <<240, 157, 159>>, <<237, 160, 128>>,                 \* truncated, surrogate
      <<48>>, <<48, 48, 55>>, <<57, 57>>,                   \* "0" "007" "99"
      <<50, 49, 52, 55, 52, 56, 51, 54, 52, 55>>,           \* "2147483647"
      <<50, 49, 52, 55, 52, 56, 51, 54, 52, 56>>,           \* "2147483648"
      <<48, 50, 49, 52, 55, 52, 56, 51, 54, 52, 55>>,       \* "02147483647"
      <<52, 50, 57, 52, 57, 54, 55, 50, 57, 55>>,           \* "4294967297"
      <<57, 57, 57, 57, 57, 57, 57, 57, 57, 57, 57, 57>>,   \* "999999999999"
      \* the buffer of lib.rs run()
      <<40, 49, 49, 32, 43, 32, 49, 50, 41, 32, 10,
        42, 32, 70, 97, 108, 115, 101, 32, 45, 32, 49, 50, 51, 32,
        123, 125, 32, 124, 124, 32, 38, 38, 32, 61, 61, 61>> }

Inputs ==
    Strings(MaxLen)
    \cup {p \o k \o q : p \in Strings(MaxPad), k \in Samples, q \in Strings(1)}

(***************************************************************************)
(* Lexer::from_cstream                                                     *)
(***************************************************************************)
Init ==
    /\ cstream \in Inputs
    /\ it = 0
    /\ line = 1
    /\ column = 1
    /\ tok_stream = <<>>
    /\ pc = "idle"
    /\ result = None
    /\ calls = 0

(***************************************************************************)
(* Lexer::execute.  Execute is the call; the other actions are the steps   *)
(* of its loop.                                                            *)
(***************************************************************************)
\* Mutant of Execute: each call rewinds the cursor to the buffer start.
ExecuteRewind ==
    /\ pc \in {"idle", "ok", "err"}
    /\ calls < MaxCalls
    /\ pc' = "run"
    /\ tok_stream' = <<>>
    /\ result' = None
    /\ calls' = calls + 1
    /\ it' = 0
    /\ line' = 1
    /\ column' = 1
    /\ UNCHANGED cstream

Execute ==
    /\ pc \in {"idle", "ok", "err"}
    /\ calls < MaxCalls
    /\ pc' = "run"
    /\ tok_stream' = <<>>
    /\ result' = None
    /\ calls' = calls + 1
    /\ UNCHANGED <<cstream, it, line, column>>

\* Mutant of InLoop: the loop condition is it <= len.
InLoopInclusive == pc = "run" /\ it <= Len(cstream)

\* The loop condition holds: self.it < self.cstream.len()
InLoop == pc = "run" /\ it < Len(cstream)

\* A recognizer matched `n` bytes: move the cursor, push the token, continue.
Push(tok, n) ==
    LET m == MoveCurs(cstream, it, n)
    IN  /\ it' = m.it
        /\ column' = m.column
        /\ line' = m.line
        /\ tok_stream' = Append(tok_stream, tok)
        /\ UNCHANGED <<cstream, pc, result, calls>>

\* Mutant of Recognizer: singles are tried before doubles.
RecognizerSinglesFirst(s, i) ==
    IF NumberMatchEnd(s, i) > 0 THEN "number"
    ELSE IF WhitespaceMatchEnd(s, i) > 0 THEN "whitespace"
    ELSE IF SinglesValue(s, i) # None THEN "singles"
    ELSE IF DoublesValue(s, i) # None THEN "doubles"
    ELSE IF BooleanValue(s, i) # None THEN "boolean"
    ELSE "none"

\* The recognizer execute accepts at offset i: the first, in the order
\* number, whitespace, doubles, singles, boolean, that returns Some.
Recognizer(s, i) ==
    IF NumberMatchEnd(s, i) > 0 THEN "number"
    ELSE IF WhitespaceMatchEnd(s, i) > 0 THEN "whitespace"
    ELSE IF DoublesValue(s, i) # None THEN "doubles"
    ELSE IF SinglesValue(s, i) # None THEN "singles"
    ELSE IF BooleanValue(s, i) # None THEN "boolean"
    ELSE "none"

\* try_extract_number returns Some: the position is recomputed.
TryExtractNumber ==
    /\ InLoop
    /\ Recognizer(cstream, it) = "number"
    /\ LET n   == NumberMatchEnd(cstream, it)
           val == NumberFold(SubSeq(cstream, it + 1, it + n), n)
           pos == GetPosition(cstream, it)
       IN  Push(Token(<<"Number", val>>, pos[1], pos[2]), n)

\* try_extract_number overflows i32 in a build with overflow checks: the
\* thread panics inside execute.
TryExtractNumberPanic ==
    /\ InLoop
    /\ Recognizer(cstream, it) = "number"
    /\ LET n == NumberMatchEnd(cstream, it)
       IN  NumberOverflows(SubSeq(cstream, it + 1, it + n), n)
    /\ pc' = "panic"
    /\ tok_stream' = <<>>
    /\ UNCHANGED <<cstream, it, line, column, result, calls>>

\* Mutant of TryExtractWhitespace: the run is consumed without a token.
TryExtractWhitespaceSkip ==
    /\ InLoop
    /\ Recognizer(cstream, it) = "whitespace"
    /\ LET m == MoveCurs(cstream, it, WhitespaceMatchEnd(cstream, it))
       IN  /\ it' = m.it
           /\ column' = m.column
           /\ line' = m.line
    /\ UNCHANGED <<cstream, tok_stream, pc, result, calls>>

\* try_extract_whitespace returns Some: the cached position is used.
TryExtractWhitespace ==
    /\ InLoop
    /\ Recognizer(cstream, it) = "whitespace"
    /\ Push(Token(<<"Whitespace">>, line, column),
            WhitespaceMatchEnd(cstream, it))

\* Mutant of TryExtractDoubles: the cursor moves by 1, as for singles.
TryExtractDoublesMoveOne ==
    /\ InLoop
    /\ Recognizer(cstream, it) = "doubles"
    /\ Push(Token(DoublesValue(cstream, it), line, column), 1)

\* try_extract_doubles returns Some.
TryExtractDoubles ==
    /\ InLoop
    /\ Recognizer(cstream, it) = "doubles"
    /\ Push(Token(DoublesValue(cstream, it), line, column), 2)

\* try_extract_singles returns Some.
TryExtractSingles ==
    /\ InLoop
    /\ Recognizer(cstream, it) = "singles"
    /\ Push(Token(SinglesValue(cstream, it), line, column), 1)

\* try_extract_boolean returns Some: True uses the cached position, False
\* recomputes it.
TryExtractBoolean ==
    /\ InLoop
    /\ Recognizer(cstream, it) = "boolean"
    /\ LET v == BooleanValue(cstream, it)
       IN  IF v[2]
           THEN Push(Token(v, line, column), TrueLen)
           ELSE Push(Token(v, GetLine(cstream, it), GetColumn(cstream, it)),
                     FalseLen)

\* Mutant of ReturnErr: the unrecognized byte is skipped before returning.
ReturnErrSkip ==
    /\ InLoop
    /\ Recognizer(cstream, it) = "none"
    /\ pc' = "err"
    /\ result' = <<"Err", [value |-> "UnrecognizedToken",
                           line |-> line, column |-> column]>>
    /\ tok_stream' = <<>>
    /\ LET m == MoveCurs(cstream, it, 1)
       IN  /\ it' = m.it
           /\ column' = m.column
           /\ line' = m.line
    /\ UNCHANGED <<cstream, calls>>

\* No recognizer matched: return Err(UnrecognizedToken) at the cached position.
ReturnErr ==
    /\ InLoop
    /\ Recognizer(cstream, it) = "none"
    /\ pc' = "err"
    /\ result' = <<"Err", [value |-> "UnrecognizedToken",
                           line |-> line, column |-> column]>>
    /\ tok_stream' = <<>>
    /\ UNCHANGED <<cstream, it, line, column, calls>>

\* The loop condition fails: return Ok(tok_stream).
ReturnOk ==
    /\ pc = "run"
    /\ ~(it < Len(cstream))
    /\ pc' = "ok"
    /\ result' = <<"Ok", tok_stream>>
    /\ tok_stream' = <<>>
    /\ UNCHANGED <<cstream, it, line, column, calls>>

Next ==
    \/ Execute
    \/ TryExtractNumber
    \/ TryExtractNumberPanic
    \/ TryExtractWhitespace
    \/ TryExtractDoubles
    \/ TryExtractSingles
    \/ TryExtractBoolean
    \/ ReturnErr
    \/ ReturnOk

Spec == Init /\ [][Next]_vars

(***************************************************************************)
(* Properties.                                                             *)
(***************************************************************************)
Last(seq) == seq[Len(seq)]

\* The first execute call on the Lexer has ended.
FirstCallEnded == calls = 1 /\ pc \in {"ok", "err", "panic"}

\* Position of offset o as section 4.1 of the specification defines it.
LineAt(s, o) == 1 + Cardinality({k \in 0..(o - 1) : s[k + 1] = 10})

ColumnAt(s, o) ==
    IF \E k \in 0..(o - 1) : s[k + 1] = 10
    THEN o - (CHOOSE k \in 0..(o - 1) :
                 /\ s[k + 1] = 10
                 /\ \A j \in (k + 1)..(o - 1) : s[j + 1] # 10)
    ELSE o + 1

\* C1: two-character operators take priority over single-character tokens.
\* Whenever the loop is at a cursor whose next two bytes are ==, !=, && or
\* ||, the step taken pushes exactly one DoubleEqual / ExclEqual /
\* DoubleAnd / DoublePipe token and moves the cursor by 2; and the input
\* "==" returns exactly one DoubleEqual token.
C1_DoublesFirst ==
    [][ /\ \A d \in { <<61, 61, "DoubleEqual">>, <<33, 61, "ExclEqual">>,
                      <<38, 38, "DoubleAnd">>, <<124, 124, "DoublePipe">> } :
            ( /\ pc = "run"
              /\ it + 2 <= Len(cstream)
              /\ cstream[it + 1] = d[1]
              /\ cstream[it + 2] = d[2] )
            => /\ it' = it + 2
               /\ Len(tok_stream') = Len(tok_stream) + 1
               /\ SubSeq(tok_stream', 1, Len(tok_stream)) = tok_stream
               /\ Last(tok_stream').value = <<d[3]>>
        /\ (cstream = <<61, 61>> /\ pc' = "ok" /\ calls' = 1)
            => /\ Len(result'[2]) = 1
               /\ result'[2][1].value = <<"DoubleEqual">>
      ]_vars

\* C1 witness: a != token was pushed for two bytes in the middle of a buffer.
C1_Witness ==
    /\ pc = "run"
    /\ Len(tok_stream) >= 2
    /\ Last(tok_stream).value = <<"ExclEqual">>
    /\ cstream[it - 1] = 33 /\ cstream[it] = 61
    /\ it < Len(cstream)

\* s is a non-empty string of ASCII digits.
AllAsciiDigits(s) == Len(s) > 0 /\ \A k \in 1..Len(s) : s[k] \in 48..57

\* The n-digit decimal numeral of v, least significant digits kept.
RECURSIVE Numeral(_, _)
Numeral(v, n) ==
    IF n = 0 THEN <<>> ELSE Append(Numeral(v \div 10, n - 1), 48 + (v % 10))

RECURSIVE DropDigits(_, _)
DropDigits(v, n) == IF n = 0 THEN v ELSE DropDigits(v \div 10, n - 1)

\* v is the standard base-10 interpretation of the digit string s.
IsValueOf(v, s) ==
    /\ v >= 0
    /\ DropDigits(v, Len(s)) = 0
    /\ Numeral(v, Len(s)) = s

\* The digit string s without its leading zeros.
RECURSIVE StripZeros(_)
StripZeros(s) ==
    IF Len(s) > 0 /\ s[1] = 48 THEN StripZeros(Tail(s)) ELSE s

\* Digit strings of equal length: a <= b.
RECURSIVE DigitsLeq(_, _)
DigitsLeq(a, b) ==
    IF Len(a) = 0 THEN TRUE
    ELSE IF a[1] # b[1] THEN a[1] < b[1]
    ELSE DigitsLeq(Tail(a), Tail(b))

\* The value of the digit string s is at most i32::MAX = 2147483647.
FitsI32(s) ==
    LET t == StripZeros(s)
    IN  \/ Len(t) < 10
        \/ /\ Len(t) = 10
           /\ DigitsLeq(t, <<50, 49, 52, 55, 52, 56, 51, 54, 52, 55>>)

\* The first call returned Ok with exactly one token, Number(value of the
\* buffer), at line 1, column 1.
OneNumberToken ==
    /\ pc = "ok"
    /\ result[1] = "Ok"
    /\ Len(result[2]) = 1
    /\ result[2][1].value[1] = "Number"
    /\ IsValueOf(result[2][1].value[2], cstream)
    /\ result[2][1].line = 1
    /\ result[2][1].column = 1

\* C2 as claimed: for every non-empty input of ASCII digits, of any length,
\* execute succeeds with exactly one Number token whose payload is the
\* base-10 value of the digits, at line 1, column 1.
C2_AnyLength ==
    (FirstCallEnded /\ AllAsciiDigits(cstream)) => OneNumberToken

\* C2 as amended: for every non-empty input of ASCII digits whose base-10
\* value is at most i32::MAX (2147483647), whatever its length, execute
\* succeeds with exactly one Number token whose payload is that value, at
\* line 1, column 1.
C2_FitsI32 ==
    (FirstCallEnded /\ AllAsciiDigits(cstream) /\ FitsI32(cstream))
        => OneNumberToken

\* C2 witness: a digit string of more than 10 bytes with value i32::MAX was
\* scanned.
C2_Witness ==
    /\ FirstCallEnded
    /\ AllAsciiDigits(cstream)
    /\ Len(cstream) > 10
    /\ pc = "ok"
    /\ result[2][1].value = <<"Number", 2147483647>>

\* C3: a ! at the cursor that is not followed by = is pushed as an Excl
\* token, a kind distinct from the CloseCurlyBracket pushed for }.  (Only
\* the ! recognizer consumes a lexeme that ends in the byte !.)
C3_ExclIsExcl ==
    (pc = "run" /\ tok_stream # <<>> /\ it >= 1 /\ cstream[it] = 33)
        => /\ Last(tok_stream).value = <<"Excl">>
           /\ Last(tok_stream).value # <<"CloseCurlyBracket">>

\* C4: when no recognizer matches at a cursor before the end of input,
\* execute returns Err(UnrecognizedToken) with the line and column of the
\* byte at the cursor, and returns none of the tokens pushed so far; the
\* input "@" fails at line 1, column 1.
C4_ErrAtCursor ==
    [][ /\ (pc = "run" /\ it < Len(cstream)
                /\ Recognizer(cstream, it) = "none")
            => /\ pc' = "err"
               /\ it' = it
               /\ result' = <<"Err", [value  |-> "UnrecognizedToken",
                                      line   |-> LineAt(cstream, it),
                                      column |-> ColumnAt(cstream, it)]>>
               /\ tok_stream' = <<>>
        /\ (cstream = <<64>> /\ pc = "run")
            => result' = <<"Err", [value |-> "UnrecognizedToken",
                                   line |-> 1, column |-> 1]>>
      ]_vars

\* C4 witness: an error was returned on the second line after tokens had
\* been pushed.
C4_Witness ==
    /\ pc = "err"
    /\ it >= 2
    /\ result[2].line = 2
    /\ result[2].column >= 2

\* C5: every buffer that holds a byte >= 0x80 makes execute fail with
\* UnrecognizedToken: whenever execute returns on such a buffer it returns
\* Err(UnrecognizedToken), and no recognizer ever consumes a byte >= 0x80
\* (every byte before the cursor is ASCII).
C5_NonAsciiFails ==
    /\ \A k \in 1..it : cstream[k] < 128
    /\ ( /\ calls = 1
         /\ pc \in {"ok", "err"}
         /\ \E k \in 1..Len(cstream) : cstream[k] >= 128 )
        => /\ pc = "err"
           /\ result[2].value = "UnrecognizedToken"

\* C6: every token pushed by any recognizer carries the position of its
\* first byte, the byte at the cursor before the step: line = 1 + number of
\* \n in buffer[0..start], column = start - (index of the last \n before
\* start), or start + 1 without one; for "1\n22" the token Number(22) has
\* line 2, column 1.
C6_TokenPosition ==
    [][ /\ Len(tok_stream') = Len(tok_stream) + 1
            => /\ Last(tok_stream').line = LineAt(cstream, it)
               /\ Last(tok_stream').column = ColumnAt(cstream, it)
               /\ it' > it
        /\ (cstream = <<49, 10, 50, 50>> /\ pc' = "ok" /\ calls' = 1)
            => /\ Len(result'[2]) = 3
               /\ result'[2][3] = [value |-> <<"Number", 22>>,
                                   line |-> 2, column |-> 1]
      ]_vars

\* C6 witness: a Number token and a Boolean(false) token (recomputed
\* position) and a token with a cached position were pushed on line 2.
C6_Witness ==
    /\ Len(tok_stream) >= 3
    /\ \E j, k \in 1..Len(tok_stream) :
          /\ tok_stream[j].value[1] = "Boolean"
          /\ tok_stream[j].line = 2
          /\ tok_stream[k].value[1] = "Whitespace"
          /\ tok_stream[k].line = 2
          /\ tok_stream[k].column > 1

\* C7: in every reachable state of the scanner the cached line and column
\* equal get_line() and get_column() recomputed from the cursor offset.
C7_CachedPosition ==
    /\ line = GetLine(cstream, it)
    /\ column = GetColumn(cstream, it)

\* C7 witness: after several steps the cursor is past a newline, not at a
\* line start.
C7_Witness ==
    /\ pc = "run"
    /\ Len(tok_stream) >= 2
    /\ line >= 2
    /\ column >= 2

\* The incremental tracker: from (1, 1), each consumed byte does line += 1,
\* column = 1 on \n and column += 1 otherwise.
RECURSIVE Incremental(_, _)
Incremental(s, o) ==
    IF o = 0 THEN <<1, 1>>
    ELSE LET p == Incremental(s, o - 1)
         IN  IF s[o] = 10 THEN <<p[1] + 1, 1>> ELSE <<p[1], p[2] + 1>>

\* C8: at every offset of the buffer, and so after any sequence of cursor
\* advances, the position recomputed from scratch (get_line, get_column)
\* equals the position of the incremental tracker; the cached fields of the
\* scanner agree with the tracker too.
C8_IncrementalAgrees ==
    /\ \A o \in 0..Len(cstream) :
          GetPosition(cstream, o) = Incremental(cstream, o)
    /\ <<line, column>> = Incremental(cstream, it)

\* C8 witness: one whitespace step consumed a run with a newline inside it.
C8_Witness ==
    /\ pc = "run"
    /\ tok_stream # <<>>
    /\ Last(tok_stream).value = <<"Whitespace">>
    /\ Last(tok_stream).line = 1
    /\ line = 2
    /\ column = 2
    /\ cstream[it - 1] = 10

\* The offset whose position is (ln, col), or -1 when there is none.
OffsetAt(s, ln, col) ==
    LET os == {o \in 0..Len(s) : LineAt(s, o) = ln /\ ColumnAt(s, o) = col}
    IN  IF os = {} THEN -1 ELSE CHOOSE o \in os : TRUE

\* The bytes `bytes` are a lexeme of a token with this value: the fixed
\* lexemes have their length, a Whitespace lexeme holds no printable ASCII
\* byte, and no other lexeme holds a space, tab, line feed or carriage
\* return.
LexemeFits(value, bytes) ==
    /\ Len(bytes) >= 1
    /\ value[1] \in {"DoubleEqual", "ExclEqual", "DoubleAnd", "DoublePipe"}
          => Len(bytes) = 2
    /\ value[1] \in {"Equal", "Cross", "Dash", "Star", "Slash",
                     "OpenRoundBracket", "CloseRoundBracket",
                     "OpenCurlyBracket", "CloseCurlyBracket", "Excl"}
          => Len(bytes) = 1
    /\ value = <<"Boolean", TRUE>> => bytes = <<84, 114, 117, 101>>
    /\ value = <<"Boolean", FALSE>> => bytes = <<70, 97, 108, 115, 101>>
    /\ value[1] = "Number"
          => \A k \in 1..Len(bytes) : bytes[k] < 128 => bytes[k] \in 48..57
    /\ value[1] = "Whitespace"
          => \A k \in 1..Len(bytes) : bytes[k] \notin 33..126
    /\ value[1] # "Whitespace"
          => \A k \in 1..Len(bytes) : bytes[k] \notin {32, 9, 10, 13}

\* The tokens cover the buffer: the first starts at offset 0, each starts
\* where the previous one ended, the last ends at the buffer length.
Covers(toks, s) ==
    LET n == Len(toks)
        start(k) == IF k = n + 1 THEN Len(s)
                    ELSE OffsetAt(s, toks[k].line, toks[k].column)
    IN  /\ n = 0 => Len(s) = 0
        /\ n > 0 => start(1) = 0
        /\ \A k \in 1..n :
              /\ start(k) >= 0
              /\ start(k) < start(k + 1)
              /\ LexemeFits(toks[k].value,
                            SubSeq(s, start(k) + 1, start(k + 1)))

\* C9: whitespace is never skipped and no byte is dropped: when the first
\* execute call succeeds its tokens, in order, cover the buffer exactly;
\* "(1 + 2)" yields OpenRoundBracket@1:1, Number(1)@1:2, Whitespace@1:3,
\* Cross@1:4, Whitespace@1:5, Number(2)@1:6, CloseRoundBracket@1:7.
C9_TokensCover ==
    (calls = 1 /\ pc = "ok")
        => /\ Covers(result[2], cstream)
           /\ cstream = <<40, 49, 32, 43, 32, 50, 41>>
                => result[2] =
                     << [value |-> <<"OpenRoundBracket">>, line |-> 1, column |-> 1],
                        [value |-> <<"Number", 1>>, line |-> 1, column |-> 2],
                        [value |-> <<"Whitespace">>, line |-> 1, column |-> 3],
                        [value |-> <<"Cross">>, line |-> 1, column |-> 4],
                        [value |-> <<"Whitespace">>, line |-> 1, column |-> 5],
                        [value |-> <<"Number", 2>>, line |-> 1, column |-> 6],
                        [value |-> <<"CloseRoundBracket">>, line |-> 1, column |-> 7] >>

\* C9 witness: the first call scanned to the end a buffer with a whitespace
\* run, holding a newline, between two other tokens.
C9_Witness ==
    /\ calls = 1
    /\ pc = "ok"
    /\ Len(result[2]) >= 3
    /\ result[2][1].value[1] = "Number"
    /\ result[2][2].value = <<"Whitespace">>
    /\ result[2][3].line = 2
    /\ result[2][3].column = 1

\* C10: scanning always halts in one of its two outcomes: a call is never
\* anywhere but inside the loop (where a step is always possible: a
\* recognizer matches, or Err is returned, or the loop exits) or at the
\* return of Ok, with the cursor at the buffer length, or of
\* Err(UnrecognizedToken); and it takes at most length(buffer) recognizer
\* steps, each consuming at least one byte.
C10_Halts ==
    /\ pc \in {"idle", "run", "ok", "err"}
    /\ pc = "ok" => (result[1] = "Ok" /\ it = Len(cstream))
    /\ pc = "err" => (result[1] = "Err"
                        /\ result[2].value = "UnrecognizedToken")
    /\ Len(tok_stream) <= it
    /\ it <= Len(cstream)

\* The four whitespace bytes of the specification: space, tab, CR, LF.
Ws4 == {32, 9, 13, 10}

\* Length of the maximal run of Ws4 bytes at offset i.
RECURSIVE Ws4Run(_, _)
Ws4Run(s, i) ==
    IF i < Len(s) /\ s[i + 1] \in Ws4 THEN 1 + Ws4Run(s, i + 1) ELSE 0

\* C11: the whitespace recognizer matches at the cursor exactly when the
\* byte there is a space, tab, carriage return or line feed, and then
\* consumes the maximal run of those four bytes and pushes one Whitespace
\* token; no other byte is consumed as whitespace.
C11_WhitespaceIsWs4 ==
    (pc = "run" /\ tok_stream # <<>>)
        => LET tok   == Last(tok_stream)
               start == OffsetAt(cstream, tok.line, tok.column)
           IN  /\ start >= 0
               /\ (tok.value = <<"Whitespace">>)
                      <=> (cstream[start + 1] \in Ws4)
               /\ (tok.value = <<"Whitespace">>)
                      => it = start + Ws4Run(cstream, start)

\* C13: for the input of length 0, execute succeeds and returns an empty
\* token sequence, leaving the scanner at cursor 0, line 1, column 1.
C13_EmptyInput ==
    (cstream = <<>> /\ pc \notin {"idle", "run"})
        => /\ pc = "ok"
           /\ result = <<"Ok", <<>>>>
           /\ it = 0
           /\ line = 1
           /\ column = 1

\* C13 witness: the first execute call on the empty buffer has returned.
C13_Witness ==
    /\ cstream = <<>>
    /\ calls = 1
    /\ pc = "ok"

\* The bytes of s at offset i are exactly the keyword kw.
KeywordAt(s, i, kw) ==
    /\ i + Len(kw) <= Len(s)
    /\ \A k \in 1..Len(kw) : s[i + k] = kw[k]

\* C14: whenever the bytes at the cursor are exactly True (resp. False) the
\* step pushes Boolean(true) and moves the cursor by 4 (resp.
\* Boolean(false), by 5); a T or F at the cursor that does not start a whole
\* keyword inside the buffer is not matched (the call returns Err there);
\* the inputs "True" and "False" return exactly one Boolean token at line 1,
\* column 1.
C14_BooleanKeywords ==
    [][ /\ (pc = "run" /\ KeywordAt(cstream, it, <<84, 114, 117, 101>>))
            => /\ it' = it + 4
               /\ tok_stream' = Append(tok_stream,
                      [value |-> <<"Boolean", TRUE>>,
                       line |-> LineAt(cstream, it),
                       column |-> ColumnAt(cstream, it)])
        /\ (pc = "run" /\ KeywordAt(cstream, it, <<70, 97, 108, 115, 101>>))
            => /\ it' = it + 5
               /\ tok_stream' = Append(tok_stream,
                      [value |-> <<"Boolean", FALSE>>,
                       line |-> LineAt(cstream, it),
                       column |-> ColumnAt(cstream, it)])
        /\ ( /\ pc = "run"
             /\ it < Len(cstream)
             /\ cstream[it + 1] \in {84, 70}
             /\ ~KeywordAt(cstream, it, <<84, 114, 117, 101>>)
             /\ ~KeywordAt(cstream, it, <<70, 97, 108, 115, 101>>) )
            => (pc' = "err" /\ it' = it)
        /\ (cstream = <<84, 114, 117, 101>> /\ pc' = "ok" /\ calls' = 1)
            => result' = <<"Ok", <<[value |-> <<"Boolean", TRUE>>,
                                    line |-> 1, column |-> 1]>> >>
        /\ (cstream = <<70, 97, 108, 115, 101>> /\ pc' = "ok" /\ calls' = 1)
            => result' = <<"Ok", <<[value |-> <<"Boolean", FALSE>>,
                                    line |-> 1, column |-> 1]>> >>
      ]_vars

\* C14 witness: Boolean(false) was pushed for a False in the middle of a
\* buffer, on line 2.
C14_Witness ==
    /\ pc = "run"
    /\ Len(tok_stream) = 2
    /\ Last(tok_stream) = [value |-> <<"Boolean", FALSE>>,
                           line |-> 2, column |-> 1]
    /\ it = 6
    /\ it < Len(cstream)

\* Err(UnrecognizedToken) at the position of offset o.
ErrAt(s, o) ==
    <<"Err", [value |-> "UnrecognizedToken",
              line |-> LineAt(s, o), column |-> ColumnAt(s, o)]>>

\* C15: a LexerError is terminal.  The failing step changes neither the
\* cursor nor line/column; a further execute call starts from the same
\* cursor (a call that starts before the buffer end follows a failure,
\* since Ok leaves the cursor at the end), pushes no token and returns the
\* same Err(UnrecognizedToken) at the same line/column.
C15_ErrorIsTerminal ==
    [][ /\ pc' = "err"
            => /\ it' = it /\ line' = line /\ column' = column
               /\ result' = ErrAt(cstream, it)
        /\ pc = "err"
            => /\ it' = it /\ line' = line /\ column' = column
               /\ pc' = "run"
               /\ tok_stream' = <<>>
               /\ it < Len(cstream)
        /\ (pc = "run" /\ calls >= 2 /\ it < Len(cstream))
            => /\ tok_stream = <<>>
               /\ pc' = "err"
               /\ result' = ErrAt(cstream, it)
      ]_vars

\* C15 witness: the second call on a Lexer failed again, past tokens of the
\* first call.
C15_Witness ==
    /\ calls = 2
    /\ pc = "err"
    /\ it >= 2
    /\ result = ErrAt(cstream, it)
    /\ result[2].line = 2

\* The number of bytes a pushed token of this value stands for, where the
\* value fixes it (0: a Number or Whitespace run, of any length >= 1).
FixedLexemeLen(value) ==
    IF value[1] \in {"DoubleEqual", "ExclEqual", "DoubleAnd", "DoublePipe"}
    THEN 2
    ELSE IF value = <<"Boolean", TRUE>> THEN 4
    ELSE IF value = <<"Boolean", FALSE>> THEN 5
    ELSE IF value[1] \in {"Number", "Whitespace"} THEN 0
    ELSE 1

\* C16: the cursor only moves forward and stays in bounds: always
\* 0 <= it <= length(buffer); a step that pushes a token increases it by
\* the matched length, at least 1; a step where no recognizer matches (the
\* Err return), like every other step that pushes no token, leaves it, line
\* and column unchanged.
C16_CursorForward ==
    [][ /\ 0 <= it /\ it <= Len(cstream)
        /\ it <= it' /\ it' <= Len(cstream)
        /\ Len(tok_stream') = Len(tok_stream) + 1
            => /\ it' >= it + 1
               /\ FixedLexemeLen(Last(tok_stream').value) # 0
                    => it' = it + FixedLexemeLen(Last(tok_stream').value)
        /\ Len(tok_stream') # Len(tok_stream) + 1
            => /\ it' = it /\ line' = line /\ column' = column
        /\ (pc = "run" /\ it < Len(cstream)
                /\ Recognizer(cstream, it) = "none")
            => /\ it' = it /\ line' = line /\ column' = column
      ]_vars

\* C16 witness: the cursor reached the end of the buffer over several
\* tokens, one of them longer than a byte.
C16_Witness ==
    /\ pc = "run"
    /\ it = Len(cstream)
    /\ Len(tok_stream) >= 3
    /\ it > Len(tok_stream)
    /\ \E k \in 1..Len(tok_stream) : tok_stream[k].value[1] = "DoubleAnd"

\* No two adjacent tokens of toks are both Number or both Whitespace.
NoAdjacentRuns(toks) ==
    \A k \in 1..(Len(toks) - 1) :
        ~( /\ toks[k].value[1] = toks[k + 1].value[1]
           /\ toks[k].value[1] \in {"Number", "Whitespace"} )

\* C17: maximal munch: in every token sequence execute builds, and so in
\* every sequence a successful call returns, no two adjacent tokens are both
\* Number and no two adjacent tokens are both Whitespace.
C17_MaximalMunch ==
    /\ NoAdjacentRuns(tok_stream)
    /\ pc = "ok" => NoAdjacentRuns(result[2])

\* C17 witness: a successful call returned a Number for a run of two digits
\* followed by a Whitespace for a run of two bytes.
C17_Witness ==
    /\ pc = "ok"
    /\ Len(cstream) = 4
    /\ Len(result[2]) = 2
    /\ result[2][1].value = <<"Number", 11>>
    /\ result[2][2].value = <<"Whitespace">>

\* The buffer starts with the keyword kw and goes on after it.
StartsWithMore(s, kw) == KeywordAt(s, 0, kw) /\ Len(s) > Len(kw)

\* C18: the boolean recognizer is not word-boundary aware.  For a buffer
\* that starts with True or False followed by further bytes, the first step
\* pushes the Boolean token and consumes only the keyword's bytes, and the
\* next step acts on the byte right after the keyword: it pushes a token at
\* that position or returns Err(UnrecognizedToken) at that position (or the
\* number recognizer fails there); "Truest" fails at line 1, column 5.
C18_NoWordBoundary ==
    [][ /\ \A kw \in { <<84, 114, 117, 101>>, <<70, 97, 108, 115, 101>> } :
            /\ ( /\ pc = "run" /\ calls = 1 /\ it = 0
                 /\ StartsWithMore(cstream, kw) )
                => /\ it' = Len(kw)
                   /\ Len(tok_stream') = 1
                   /\ tok_stream'[1].value[1] = "Boolean"
                   /\ tok_stream'[1].value[2] = (kw[1] = 84)
                   /\ tok_stream'[1].line = 1
                   /\ tok_stream'[1].column = 1
                   /\ pc' = "run"
            /\ ( /\ pc = "run" /\ calls = 1 /\ it = Len(kw)
                 /\ Len(tok_stream) = 1
                 /\ StartsWithMore(cstream, kw) )
                => \/ /\ pc' = "err"
                      /\ result' = ErrAt(cstream, Len(kw))
                   \/ /\ pc' = "run"
                      /\ Len(tok_stream') = 2
                      /\ tok_stream'[2].line = LineAt(cstream, Len(kw))
                      /\ tok_stream'[2].column = Len(kw) + 1
                   \/ /\ pc' = "panic"
                      /\ it' = it
        /\ (cstream = <<84, 114, 117, 101, 115, 116>> /\ pc' = "err")
            => result' = <<"Err", [value |-> "UnrecognizedToken",
                                   line |-> 1, column |-> 5]>>
      ]_vars

\* C18 witness: "Truest" failed at line 1, column 5, after Boolean(true) had
\* been pushed for its first four bytes.
C18_Witness ==
    /\ cstream = <<84, 114, 117, 101, 115, 116>>
    /\ pc = "err"
    /\ it = 4
    /\ result[2].column = 5

\* C19: execute is not repeatable on the same Lexer.  Ok leaves the cursor
\* at the buffer end and the next call starts from there, so on a non-empty
\* buffer the first Ok carries tokens while every later Ok (which can only
\* follow an Ok, an Err being repeated by C15) carries an empty sequence.
C19_SecondCallEmpty ==
    /\ pc = "ok" => it = Len(cstream)
    /\ (pc = "ok" /\ calls = 1 /\ Len(cstream) > 0)
          => (result[1] = "Ok" /\ Len(result[2]) >= 1)
    /\ (pc = "run" /\ calls >= 2)
          => tok_stream = <<>>
    /\ (pc = "ok" /\ calls >= 2)
          => result = <<"Ok", <<>>>>

\* C19 witness: the second call on a Lexer over a buffer of several tokens
\* returned Ok.
C19_Witness ==
    /\ calls = 2
    /\ pc = "ok"
    /\ Len(cstream) >= 3
    /\ result = <<"Ok", <<>>>>
    /\ line = 2

\* The byte at offset i is an & or a | not followed by the same byte.
LoneAndOrPipe(s, i) ==
    /\ i < Len(s)
    /\ s[i + 1] \in {38, 124}
    /\ ~(i + 1 < Len(s) /\ s[i + 2] = s[i + 1])

\* C20: a lone & or | is not a token: with the cursor at such a byte execute
\* returns Err(UnrecognizedToken) at that byte's line/column; and no token
\* of kind Character is ever pushed, for it or for any other byte.
C20_LoneAmpersandFails ==
    [][ /\ (pc = "run" /\ LoneAndOrPipe(cstream, it))
            => /\ pc' = "err"
               /\ it' = it
               /\ result' = ErrAt(cstream, it)
        /\ \A k \in 1..Len(tok_stream') :
               tok_stream'[k].value[1] # "Character"
        /\ pc' = "ok"
            => \A k \in 1..Len(result'[2]) :
                   result'[2][k].value[1] # "Character"
      ]_vars

\* C20 witness: "&&&" and more: after a DoubleAnd the third & failed at
\* its own column.
C20_Witness ==
    /\ pc = "err"
    /\ it >= 2
    /\ cstream[it - 1] = 38 /\ cstream[it] = 38 /\ cstream[it + 1] = 38
    /\ result = ErrAt(cstream, it)
    /\ result[2].column = it + 1

====
